---- MODULE Spec2Model ----
(***************************************************************************)
(* Model of the multi-strategy crawler: crawler.py (WebCrawler.fetch_sync, *)
(* fetch_async, crawl_sequential, crawl_threaded, crawl_async and the      *)
(* module-level wrappers) and the comparison route app.index.              *)
(*                                                                         *)
(* One fetch is a small state machine per input position ("task"): it      *)
(* issues HTTP attempts one at a time, and the environment answers each    *)
(* attempt with an outcome (a response, a timeout, a connection failure,   *)
(* some other exception).  The three runners differ only in who starts the *)
(* tasks and when: the calling thread in list order (crawl_sequential),    *)
(* the workers of a ThreadPoolExecutor (crawl_threaded), or the event loop *)
(* behind an aiohttp connector with a total and a per-endpoint connection  *)
(* limit (crawl_async).                                                    *)
(***************************************************************************)
EXTENDS Integers, Sequences, FiniteSets, TLC

VARIABLES
    mode,              \* which runner this run executes
    urls,              \* the input URL list (a sequence)
    max_retries,       \* WebCrawler.max_retries
    workers,           \* crawl_threaded(workers=...)
    concurrent_limit,  \* crawl_async(concurrent_limit=...)
    net,               \* the outcomes the network can produce in this run
    task,              \* per input position: where its fetch stands
    served,            \* per input position: the outcomes its HTTP calls got
    sleeps,            \* per input position: asyncio.sleep(0.5) calls made
    fut,               \* per input position: the fetch's value, once it has one
    begun,             \* per input position: how many times its fetch was entered
    overtaken,         \* whether a fetch ended before one at an earlier position
    queue,             \* ThreadPoolExecutor work queue (input positions)
    threads,           \* ThreadPoolExecutor worker threads: 0 idle, else position
    submitted,         \* how many work items executor.map has submitted
    main,              \* where the runner itself stands
    returned,          \* what the runner returned: (result dicts, elapsed time)
    cfg,               \* app.index: config.crawler
    db,                \* app.index: the persistence service and what it stored
    faults,            \* app.index: the strategies unable to execute in this request
    ipc,               \* app.index: where the request handler stands
    runs,              \* app.index: per strategy, what its runner returned
    executed,          \* app.index: the strategies whose runner was called
    log,               \* app.index: the strategies an error was logged for
    view               \* app.index: the arguments of the rendered template

\* the inputs of a runner
params == <<mode, urls, max_retries, workers, concurrent_limit, net>>

\* the state of a runner
run == <<task, served, sleeps, fut, begun, overtaken, queue, threads, submitted,
         main, returned>>

\* the state of the request handler
app == <<cfg, db, faults, ipc, runs, executed, log, view>>

vars == <<params, run, app>>

(***************************************************************************)
(* Bounds of the model.                                                    *)
(***************************************************************************)
MaxUrls == 3
MaxPageUrls == 2
MaxElapsed == 1
MaxRetries == 3
HostUrls == 11
MaxWorkers == 2
MaxLimit == 2

(***************************************************************************)
(* Program constants.                                                      *)
(***************************************************************************)
DEFAULT_MAX_RETRIES == 2
DEFAULT_WORKERS == 10
DEFAULT_CONCURRENT_LIMIT == 50
LIMIT_PER_HOST == 10
CONN_MSG_MAX == 50
ERR_MSG_MAX == 100

(***************************************************************************)
(* Optional values: None is Python's None, Some(v) a present value.        *)
(***************************************************************************)
None == <<>>
Some(v) == <<v>>

Min(a, b) == IF a <= b THEN a ELSE b

\* Python's s[:n]
Truncate(s, n) == SubSeq(s, 1, Min(Len(s), n))

RECURSIVE Repeat(_, _)
Repeat(s, n) == IF n = 0 THEN "" ELSE s \o Repeat(s, n - 1)

(***************************************************************************)
(* URLs are strings.  aiohttp keys its connections by endpoint             *)
(* (host, port, is_ssl); with default ports that is (host, is_ssl).        *)
(***************************************************************************)
UrlA == "http://a.test"
UrlB == "http://b.test"
UrlAs == "https://a.test"

HasPrefix(s, p) == Len(s) >= Len(p) /\ SubSeq(s, 1, Len(p)) = p
IsSsl(u) == HasPrefix(u, "https://")
Host(u) == IF IsSsl(u) THEN SubSeq(u, 9, Len(u)) ELSE SubSeq(u, 8, Len(u))
Endpoint(u) == <<Host(u), IsSsl(u)>>

\* The URL list of length n used as input: a.test, b.test, a.test, ...
UrlList(n) == [i \in 1..n |-> IF i % 2 = 1 THEN UrlA ELSE UrlB]

(***************************************************************************)
(* Outcomes of one HTTP attempt, as the except clauses of fetch_sync and   *)
(* fetch_async tell them apart.                                            *)
(*   response    a response arrived and was parsed                         *)
(*   timeout     requests.exceptions.Timeout / asyncio.TimeoutError        *)
(*   connection  requests.exceptions.ConnectionError / aiohttp.ClientError *)
(*   error       any other Exception raised before a response arrived      *)
(*   parse       any other Exception raised while processing a response    *)
(*   fault       (fetch_async only) an exception that leaves the coroutine *)
(***************************************************************************)
Page(status, title, hrefs) == [status |-> status, title |-> title, hrefs |-> hrefs]
NoPage == Page(0, None, 0)

Outcome(kind, msg, page) == [kind |-> kind, msg |-> msg, page |-> page]
Response(page) == Outcome("response", "", page)
Timeout == Outcome("timeout", "", NoPage)
ConnectionError(msg) == Outcome("connection", msg, NoPage)
OtherError(msg) == Outcome("error", msg, NoPage)
ParseError(msg, page) == Outcome("parse", msg, page)
TaskFault(msg) == Outcome("fault", msg, NoPage)

(***************************************************************************)
(* CrawlResult and the results fetch_sync / fetch_async build.             *)
(***************************************************************************)
CrawlResult(url, title, links, status_code, error, success) ==
    [url |-> url, title |-> title, links |-> links,
     status_code |-> status_code, error |-> error, success |-> success]

RECURSIVE LStrip(_)
LStrip(s) ==
    IF Len(s) > 0 /\ SubSeq(s, 1, 1) = " " THEN LStrip(SubSeq(s, 2, Len(s))) ELSE s

RECURSIVE RStrip(_)
RStrip(s) ==
    IF Len(s) > 0 /\ SubSeq(s, Len(s), Len(s)) = " "
    THEN RStrip(SubSeq(s, 1, Len(s) - 1)) ELSE s

\* str.strip()
Strip(s) == RStrip(LStrip(s))

\* soup.title.string: None without a title element, None for an empty one
TitleString(page) ==
    IF page.title = None THEN None
    ELSE IF page.title[1] = "" THEN None ELSE page.title

\* soup.title.string.strip() if soup.title and soup.title.string else "No Title"
ParseTitle(page) ==
    IF TitleString(page) # None THEN Strip(TitleString(page)[1]) ELSE "No Title"

SuccessResult(url, page) ==
    CrawlResult(url, ParseTitle(page), page.hrefs, Some(page.status), None, TRUE)

\* a timeout result built without success=False (the dataclass default is True)
TimeoutResultDefaultSuccess(url) ==
    CrawlResult(url, "Timeout Error", 0, None, Some("Request timed out"), TRUE)

TimeoutResult(url) ==
    CrawlResult(url, "Timeout Error", 0, None, Some("Request timed out"), FALSE)

ConnectionResult(url, msg) ==
    CrawlResult(url, "Connection Error", 0, None,
                Some("Connection failed: " \o Truncate(msg, CONN_MSG_MAX)), FALSE)

ErrorResult(url, msg) ==
    CrawlResult(url, "Error", 0, None, Some(Truncate(msg, ERR_MSG_MAX)), FALSE)

\* the return after the for loop
FallbackResult(url) ==
    CrawlResult(url, "Error", 0, None, Some("Max retries exceeded"), FALSE)

\* a replacement that keeps the whole message of the exception
UnhandledResultUntruncated(msg) ==
    CrawlResult("unknown", "Error", 0, None, Some(msg), FALSE)

\* crawl_async's replacement for a task that raised
UnhandledResult(msg) ==
    CrawlResult("unknown", "Error", 0, None, Some(Truncate(msg, ERR_MSG_MAX)), FALSE)

(***************************************************************************)
(* One iteration of the retry loop.                                        *)
(***************************************************************************)
\* a retry policy that gives up on the first timeout
RetryableConnectionOnly(o) == o.kind = "connection"

\* a retry policy that retries after any exception
RetryableAnyException(o) == o.kind # "response"

\* a retry policy that gives up on the first connection failure
RetryableTimeoutOnly(o) == o.kind = "timeout"

\* the except clauses that retry: Timeout and ConnectionError / ClientError
Retryable(o) == o.kind \in {"timeout", "connection"}

\* the last-attempt test off by one
LastAttemptOffByOne(attempt, retries) == attempt = retries

\* if attempt == self.max_retries - 1
LastAttempt(attempt, retries) == attempt = retries - 1

\* handlers that never return on the last attempt
ReturnsNeverOnRetryable(o, attempt, retries) == ~Retryable(o)

\* whether the iteration returns from fetch (otherwise the loop goes on)
Returns(o, attempt, retries) == ~Retryable(o) \/ LastAttempt(attempt, retries)

\* the CrawlResult a returning iteration builds
AttemptResult(url, o) ==
    CASE o.kind = "response"   -> SuccessResult(url, o.page)
      [] o.kind = "timeout"    -> TimeoutResult(url)
      [] o.kind = "connection" -> ConnectionResult(url, o.msg)
      [] OTHER                 -> ErrorResult(url, o.msg)

(***************************************************************************)
(* What a finished fetch leaves in its future: the CrawlResult it          *)
(* returned, or the exception that left it.                                *)
(***************************************************************************)
NoResult == CrawlResult("", "", 0, None, None, FALSE)
Value(r) == [raised |-> FALSE, result |-> r, msg |-> ""]
Raised(msg) == [raised |-> TRUE, result |-> NoResult, msg |-> msg]

\* a fetch that parses the response outside its try block
AttemptValueParseEscapes(url, o) ==
    IF o.kind \in {"fault", "parse"} THEN Raised(o.msg)
    ELSE Value(AttemptResult(url, o))

AttemptValue(url, o) ==
    IF o.kind = "fault" THEN Raised(o.msg) ELSE Value(AttemptResult(url, o))

(***************************************************************************)
(* The whole fetch as a function of the outcomes its attempts get: the     *)
(* value the fetch ends with after the attempts in script, from attempt    *)
(* number attempt on, or None when script ends before the fetch does.      *)
(***************************************************************************)
RECURSIVE FetchFrom(_, _, _, _)
FetchFrom(url, script, attempt, retries) ==
    IF attempt >= retries THEN Some(Value(FallbackResult(url)))
    ELSE IF attempt + 1 > Len(script) THEN None
    ELSE IF Returns(script[attempt + 1], attempt, retries)
         THEN Some(AttemptValue(url, script[attempt + 1]))
         ELSE FetchFrom(url, script, attempt + 1, retries)

Fetch(url, script, retries) == FetchFrom(url, script, 0, retries)

(***************************************************************************)
(* Result collection of the runners.                                       *)
(***************************************************************************)
\* the dict each runner builds from a CrawlResult
ToDict(r) ==
    [url |-> r.url, title |-> r.title, links |-> r.links,
     status_code |-> r.status_code, error |-> r.error, success |-> r.success]

\* gather's results taken as they are, exceptions included
ProcessedUnchecked(v) == v.result

\* crawl_async, lines 199-210: an exception among gather's results is replaced
Processed(v) == IF v.raised THEN UnhandledResult(v.msg) ELSE v.result

\* results collected back to front
ResultAtReversed(f, k) == f[Len(f) + 1 - k][1]

\* list(executor.map(...)), [fetch_sync(url) for url in urls] and
\* asyncio.gather(*tasks): the k-th value is the k-th submitted call's
ResultAt(f, k) == f[k][1]

\* asyncio.gather(*tasks, return_exceptions=True)
ReturnExceptions == TRUE

\* a collection that fails when there is nothing to collect
ReraisesOnEmpty(m, f) ==
    \/ f = <<>>
    \/ \E k \in 1..Len(f) : f[k] # None /\ f[k][1].raised

\* whether waiting for the values raises instead of yielding them: gather
\* hands exceptions over as values when return_exceptions is set;
\* Future.result() in executor.map and a plain call re-raise them
Reraises(m, f) ==
    /\ m = "async" => ~ReturnExceptions
    /\ \E k \in 1..Len(f) : f[k] # None /\ f[k][1].raised

Collected(f) == [k \in 1..Len(f) |-> ToDict(Processed(ResultAt(f, k)))]

(***************************************************************************)
(* State of the run.                                                       *)
(***************************************************************************)
N == Len(urls)
Positions == 1..N

Task(pc, attempt) == [pc |-> pc, attempt |-> attempt]

Done(i) == task[i].pc = "done"
AllDone == \A i \in Positions : Done(i)

\* positions whose fetch has been entered and has not returned
Executing == {i \in Positions : task[i].pc \in {"loop", "inflight", "sleeping"}}

\* positions holding a connection / inside the HTTP call
InFlight == {i \in Positions : task[i].pc = "inflight"}
InFlightTo(e) == {i \in InFlight : Endpoint(urls[i]) = e}

(***************************************************************************)
(* The networks of the runs: the outcomes an HTTP attempt can have.        *)
(***************************************************************************)
PageOk == Page(200, Some("A"), 2)
PageNotFound == Page(404, Some(" Not Found "), 0)
PageNoTitle == Page(200, None, 1)
PageEmptyTitle == Page(200, Some(""), 0)
PageBlankTitle == Page(200, Some("  "), 3)

LongMessage == Repeat("0123456789", 12)

\* the runners' network: one outcome of each way an attempt can go on
SyncNet == {Response(PageOk), Timeout, OtherError("boom")}
AsyncNet == SyncNet \cup {TaskFault("bug")}

\* a single fetch's network: every kind of outcome, pages with and without a
\* title, messages shorter and longer than the truncation lengths
FetchSyncNet ==
    {Response(PageOk), Response(PageNotFound), Response(PageNoTitle),
     Response(PageEmptyTitle), Response(PageBlankTitle),
     Timeout,
     ConnectionError("refused"), ConnectionError(LongMessage),
     OtherError(""), OtherError("boom"), OtherError(LongMessage),
     ParseError("bad markup", PageOk)}
FetchAsyncNet == FetchSyncNet \cup {TaskFault("bug"), TaskFault(LongMessage)}

\* a network that answers every request
AnsweringNet == {Response(PageOk)}

(***************************************************************************)
(* Initial states.                                                         *)
(***************************************************************************)
NoRuns == [s \in {"sequential", "threaded", "async"} |-> None]

\* no runner is being modelled step by step
RunIdle(list) ==
    /\ mode = "index"
    /\ urls = list
    /\ max_retries = DEFAULT_MAX_RETRIES
    /\ workers = DEFAULT_WORKERS
    /\ concurrent_limit = DEFAULT_CONCURRENT_LIMIT
    /\ net = {}
    /\ task = <<>>
    /\ served = <<>>
    /\ sleeps = <<>>
    /\ fut = <<>>
    /\ begun = <<>>
    /\ overtaken = FALSE
    /\ queue = <<>>
    /\ threads = <<>>
    /\ submitted = 0
    /\ main = "idle"
    /\ returned = None

Strategies == {"sequential", "threaded", "async"}

\* CrawlerConfig (the per-attempt timeout has no counterpart in the model)
CrawlerConfig(retries, sequential_enabled, threaded_enabled, async_enabled) ==
    [max_retries |-> retries,
     sequential_enabled |-> sequential_enabled,
     threaded_enabled |-> threaded_enabled,
     async_enabled |-> async_enabled,
     threaded_workers |-> DEFAULT_WORKERS,
     async_concurrent_limit |-> DEFAULT_CONCURRENT_LIMIT]

\* the configurations of a request: the default one, and the ones that differ
\* from it in max_retries or in one enablement flag
Configs ==
    {CrawlerConfig(DEFAULT_MAX_RETRIES, TRUE, TRUE, TRUE),
     CrawlerConfig(MaxRetries, TRUE, TRUE, TRUE),
     CrawlerConfig(DEFAULT_MAX_RETRIES, FALSE, TRUE, TRUE),
     CrawlerConfig(DEFAULT_MAX_RETRIES, TRUE, FALSE, TRUE),
     CrawlerConfig(DEFAULT_MAX_RETRIES, TRUE, TRUE, FALSE)}

\* DatabaseService: whether a client exists, the session row and the result
\* batches stored in this request
Database(available) == [available |-> available, session |-> None, batches |-> {}]

\* no request is being handled
AppIdle ==
    /\ cfg = CrawlerConfig(DEFAULT_MAX_RETRIES, TRUE, TRUE, TRUE)
    /\ db = Database(FALSE)
    /\ faults = {}
    /\ ipc = "none"
    /\ runs = NoRuns
    /\ executed = {}
    /\ log = {}
    /\ view = None

\* a runner has been called with these arguments
InitRun(m, list, r, w, c, outcomes) ==
    /\ mode = m
    /\ urls = list
    /\ max_retries = r
    /\ workers = w
    /\ concurrent_limit = c
    /\ net = outcomes
    /\ task = [i \in 1..Len(list) |-> Task("new", 0)]
    /\ served = [i \in 1..Len(list) |-> <<>>]
    /\ sleeps = [i \in 1..Len(list) |-> 0]
    /\ fut = [i \in 1..Len(list) |-> None]
    /\ begun = [i \in 1..Len(list) |-> 0]
    /\ overtaken = FALSE
    /\ queue = <<>>
    /\ threads = <<>>
    /\ submitted = 0
    /\ main = "running"
    /\ returned = None

\* one runner over one URL list, as the module-level wrappers call it:
\* WebCrawler() with its default max_retries
Init ==
    /\ AppIdle
    /\ \E n \in 0..MaxUrls :
        \/ InitRun("sequential", UrlList(n), DEFAULT_MAX_RETRIES, DEFAULT_WORKERS,
                   DEFAULT_CONCURRENT_LIMIT, SyncNet)
        \/ \E w \in 1..MaxWorkers :
              InitRun("threaded", UrlList(n), DEFAULT_MAX_RETRIES, w,
                      DEFAULT_CONCURRENT_LIMIT, SyncNet)
        \/ \E c \in 1..MaxLimit :
              InitRun("async", UrlList(n), DEFAULT_MAX_RETRIES, DEFAULT_WORKERS, c,
                      AsyncNet)

\* one fetch: fetch_sync or fetch_async of a WebCrawler(max_retries=r), run
\* by crawl_sequential or crawl_async over a single URL
InitFetch ==
    /\ AppIdle
    /\ \E r \in -1..MaxRetries :
        \/ InitRun("sequential", <<UrlA>>, r, DEFAULT_WORKERS,
                   DEFAULT_CONCURRENT_LIMIT, FetchSyncNet)
        \/ InitRun("async", <<UrlA>>, r, DEFAULT_WORKERS,
                   DEFAULT_CONCURRENT_LIMIT, FetchAsyncNet)

\* a request to "/": the URLs load_urls read, the configuration, whether the
\* database client exists, and the strategies that cannot execute this time
InitIndex ==
    /\ \E n \in 0..MaxPageUrls : RunIdle(UrlList(n))
    /\ cfg \in Configs
    /\ \E a \in BOOLEAN : db = Database(a)
    /\ faults \in SUBSET Strategies
    /\ ipc = "start"
    /\ runs = NoRuns
    /\ executed = {}
    /\ log = {}
    /\ view = None

\* HostUrls URLs of one host: all of one endpoint, or all but the last
SameHostList(n, lastSsl) ==
    [i \in 1..n |-> IF i = n /\ lastSsl THEN UrlAs ELSE UrlA]

\* crawl_async over more URLs of one host than limit_per_host, on a network
\* that answers every request: with its default concurrent_limit, and with a
\* concurrent_limit as low as limit_per_host
InitHost ==
    /\ AppIdle
    /\ \E lastSsl \in BOOLEAN :
       \E c \in {DEFAULT_CONCURRENT_LIMIT, LIMIT_PER_HOST} :
          InitRun("async", SameHostList(HostUrls, lastSsl), DEFAULT_MAX_RETRIES,
                  DEFAULT_WORKERS, c, AnsweringNet)

(***************************************************************************)
(* A fetch ends: its future gets the value, and in the pool the worker     *)
(* that ran it is idle again.                                              *)
(***************************************************************************)
Finish(i, v) ==
    /\ task' = [task EXCEPT ![i] = Task("done", task[i].attempt)]
    /\ fut' = [fut EXCEPT ![i] = Some(v)]
    /\ overtaken' = (overtaken \/ \E j \in 1..(i - 1) : ~Done(j))
    /\ threads' = [w \in 1..Len(threads) |-> IF threads[w] = i THEN 0 ELSE threads[w]]

(***************************************************************************)
(* crawl_sequential: [self.fetch_sync(url) for url in urls]                *)
(***************************************************************************)
\* a calling thread that starts every fetch without waiting for the one before
SeqBeginUnordered(i) ==
    /\ mode = "sequential" /\ main = "running"
    /\ task[i].pc = "new"
    /\ task' = [task EXCEPT ![i] = Task("loop", 0)]
    /\ begun' = [begun EXCEPT ![i] = @ + 1]
    /\ UNCHANGED <<params, app,
                   served, sleeps, fut, overtaken, queue, threads, submitted,
                   main, returned>>

SeqBegin(i) ==
    /\ mode = "sequential" /\ main = "running"
    /\ task[i].pc = "new"
    /\ \A j \in 1..(i - 1) : Done(j)
    /\ task' = [task EXCEPT ![i] = Task("loop", 0)]
    /\ begun' = [begun EXCEPT ![i] = @ + 1]
    /\ UNCHANGED <<params, app,
                   served, sleeps, fut, overtaken, queue, threads, submitted,
                   main, returned>>

(***************************************************************************)
(* crawl_threaded: executor.map submits every call, in list order; submit  *)
(* starts a worker thread while none is idle and fewer than max_workers    *)
(* exist; an idle worker takes the head of the work queue.                 *)
(***************************************************************************)
\* a pool that starts a thread per submitted call, whatever max_workers is
SpawnsThreadUnbounded(ths, limit) == \A w \in 1..Len(ths) : ths[w] # 0

\* a pool that never starts a worker thread
SpawnsThreadNever(ths, limit) == FALSE

SpawnsThread(ths, limit) ==
    /\ \A w \in 1..Len(ths) : ths[w] # 0
    /\ Len(ths) < limit

PoolSubmit ==
    /\ mode = "threaded" /\ main = "running"
    /\ submitted < N
    /\ submitted' = submitted + 1
    /\ queue' = Append(queue, submitted + 1)
    /\ threads' = IF SpawnsThread(threads, workers) THEN Append(threads, 0) ELSE threads
    /\ UNCHANGED <<params, app,
                   task, served, sleeps, fut, begun, overtaken, main, returned>>

\* a worker that takes the newest work item instead of the oldest
PoolTakeLifo(w) ==
    /\ mode = "threaded"
    /\ w \in 1..Len(threads) /\ threads[w] = 0
    /\ queue # <<>>
    /\ threads' = [threads EXCEPT ![w] = queue[Len(queue)]]
    /\ queue' = SubSeq(queue, 1, Len(queue) - 1)
    /\ task' = [task EXCEPT ![queue[Len(queue)]] = Task("loop", 0)]
    /\ begun' = [begun EXCEPT ![queue[Len(queue)]] = @ + 1]
    /\ UNCHANGED <<params, app,
                   served, sleeps, fut, overtaken, submitted, main, returned>>

PoolTake(w) ==
    /\ mode = "threaded"
    /\ w \in 1..Len(threads) /\ threads[w] = 0
    /\ queue # <<>>
    /\ threads' = [threads EXCEPT ![w] = Head(queue)]
    /\ queue' = Tail(queue)
    /\ task' = [task EXCEPT ![Head(queue)] = Task("loop", 0)]
    /\ begun' = [begun EXCEPT ![Head(queue)] = @ + 1]
    /\ UNCHANGED <<params, app,
                   served, sleeps, fut, overtaken, submitted, main, returned>>

(***************************************************************************)
(* The connector of crawl_async: TCPConnector(limit=concurrent_limit,      *)
(* limit_per_host=10).  A request gets a connection while fewer than limit *)
(* are acquired in all and fewer than limit_per_host to its endpoint; a    *)
(* limit of 0 means no limit.                                              *)
(***************************************************************************)
\* a connector that lets one connection too many through
AvailableOffByOne(acquired, limit) == limit = 0 \/ acquired <= limit

Available(acquired, limit) == limit = 0 \/ acquired < limit

\* a connector without the per-endpoint limit
CanAcquireTotalOnly(i) == Available(Cardinality(InFlight), concurrent_limit)

\* a connector none of whose connections is ever free
CanAcquireNever(i) == FALSE

CanAcquire(i) ==
    /\ Available(Cardinality(InFlight), concurrent_limit)
    /\ Available(Cardinality(InFlightTo(Endpoint(urls[i]))), LIMIT_PER_HOST)

(***************************************************************************)
(* crawl_async: gather makes a task of every coroutine, and the event loop *)
(* runs the first step of each, in list order, before it handles any I/O:  *)
(* a task runs up to session.get(...), where it gets a connection or       *)
(* starts waiting for one.                                                 *)
(***************************************************************************)
AsyncStart(i) ==
    /\ mode = "async" /\ main = "running"
    /\ task[i].pc = "new"
    /\ \A j \in 1..(i - 1) : task[j].pc # "new"
    /\ task' = [task EXCEPT ![i] =
                   Task(IF 0 < max_retries /\ CanAcquire(i) THEN "inflight" ELSE "loop", 0)]
    /\ begun' = [begun EXCEPT ![i] = @ + 1]
    /\ UNCHANGED <<params, app,
                   served, sleeps, fut, overtaken, queue, threads, submitted,
                   main, returned>>

\* I/O and timers are handled once every task gather made has had its first step
Launched == mode = "async" => \A j \in Positions : task[j].pc # "new"

(***************************************************************************)
(* The retry loop of fetch_sync and fetch_async, one attempt at a time.    *)
(***************************************************************************)
\* requests.get(...) / session.get(...) is called
Request(i) ==
    /\ task[i].pc = "loop"
    /\ task[i].attempt < max_retries
    /\ mode = "async" => CanAcquire(i)
    /\ task' = [task EXCEPT ![i].pc = "inflight"]
    /\ UNCHANGED <<params, app,
                   served, sleeps, fut, begun, overtaken, queue, threads,
                   submitted, main, returned>>

\* a fetch_async that retries at once, as fetch_sync does
AfterAttemptNoSleep(i, o) ==
    IF Returns(o, task[i].attempt, max_retries)
    THEN Finish(i, AttemptValue(urls[i], o)) /\ UNCHANGED sleeps
    ELSE /\ task' = [task EXCEPT ![i] = Task("loop", task[i].attempt + 1)]
         /\ UNCHANGED <<sleeps, fut, overtaken, threads>>

\* what follows an attempt that ended with outcome o
AfterAttempt(i, o) ==
    IF Returns(o, task[i].attempt, max_retries)
    THEN Finish(i, AttemptValue(urls[i], o)) /\ UNCHANGED sleeps
    ELSE /\ IF mode = "async"
            THEN /\ task' = [task EXCEPT ![i].pc = "sleeping"]
                 /\ sleeps' = [sleeps EXCEPT ![i] = @ + 1]
            ELSE /\ task' = [task EXCEPT ![i] = Task("loop", task[i].attempt + 1)]
                 /\ UNCHANGED sleeps
         /\ UNCHANGED <<fut, overtaken, threads>>

\* the call ends: with a response, or with an exception
Respond(i, o) ==
    /\ task[i].pc = "inflight"
    /\ Launched
    /\ o \in net
    /\ served' = [served EXCEPT ![i] = Append(@, o)]
    /\ AfterAttempt(i, o)
    /\ UNCHANGED <<params, app,
                   begun, queue, submitted, main, returned>>

\* session.get(...) waits for a connection until ClientTimeout(total) expires
WaitTimeout(i) ==
    /\ mode = "async"
    /\ task[i].pc = "loop"
    /\ task[i].attempt < max_retries
    /\ ~CanAcquire(i)
    /\ Launched
    /\ Timeout \in net
    /\ served' = [served EXCEPT ![i] = Append(@, Timeout)]
    /\ AfterAttempt(i, Timeout)
    /\ UNCHANGED <<params, app,
                   begun, queue, submitted, main, returned>>

\* await asyncio.sleep(0.5) is over: the next iteration
Wake(i) ==
    /\ task[i].pc = "sleeping"
    /\ task' = [task EXCEPT ![i] = Task("loop", task[i].attempt + 1)]
    /\ UNCHANGED <<params, app,
                   served, sleeps, fut, begun, overtaken, queue, threads,
                   submitted, main, returned>>

\* the for loop is exhausted: the return after it
Fallback(i) ==
    /\ task[i].pc = "loop"
    /\ task[i].attempt >= max_retries
    /\ Finish(i, Value(FallbackResult(urls[i])))
    /\ UNCHANGED <<params, app,
                   served, sleeps, begun, queue, submitted, main, returned>>

(***************************************************************************)
(* The runner returns once every call has its value.                       *)
(***************************************************************************)
Return ==
    /\ main = "running"
    /\ mode = "threaded" => submitted = N
    /\ AllDone
    /\ IF Reraises(mode, fut)
       THEN main' = "raised" /\ UNCHANGED returned
       ELSE /\ main' = "returned"
            \* elapsed_time = round(time.time() - start_time, 2), on a clock
            \* that does not step back
            /\ \E t \in 0..MaxElapsed : returned' = <<Collected(fut), t>>
    /\ UNCHANGED <<params, app,
                   task, served, sleeps, fut, begun, overtaken, queue, threads,
                   submitted>>

Next ==
    \/ \E i \in Positions : SeqBegin(i)
    \/ PoolSubmit
    \/ \E w \in 1..Len(threads) : PoolTake(w)
    \/ \E i \in Positions : AsyncStart(i)
    \/ \E i \in Positions : Request(i)
    \/ \E i \in Positions : \E o \in net : Respond(i, o)
    \/ \E i \in Positions : WaitTimeout(i)
    \/ \E i \in Positions : Wake(i)
    \/ Return

Spec == Init /\ [][Next]_vars

\* the runners when every thread and task that can take a step does so in the
\* end, and every HTTP attempt under way ends
SpecLive == Spec /\ WF_vars(Next)

\* a single fetch_sync or fetch_async
NextFetch ==
    \/ \E i \in Positions : SeqBegin(i)
    \/ \E i \in Positions : AsyncStart(i)
    \/ \E i \in Positions : Request(i)
    \/ \E i \in Positions : \E o \in net : Respond(i, o)
    \/ \E i \in Positions : Wake(i)
    \/ \E i \in Positions : Fallback(i)
    \/ Return

SpecFetch == InitFetch /\ [][NextFetch]_vars

\* crawl_async on a network that answers every request
NextHost ==
    \/ \E i \in Positions : AsyncStart(i)
    \/ \E i \in Positions : Request(i)
    \/ \E i \in Positions : \E o \in net : Respond(i, o)
    \/ Return

SpecHost == InitHost /\ [][NextHost]_vars

\* the same when the event loop runs every task that can go on and every
\* request under way is answered
SpecHostLive == SpecHost /\ WF_vars(NextHost)

(***************************************************************************)
(* app.index: the comparison run behind "/".                               *)
(***************************************************************************)
\* the outcomes of one position's attempts in a finished fetch
CompleteScripts(s) ==
    {<<Response(PageOk)>>, <<Timeout, Timeout>>}
        \cup (IF s = "async" THEN {<<TaskFault("bug")>>} ELSE {})

\* the result dicts a runner returns when position k's attempts get scripts[k]
RunResults(list, scripts, retries) ==
    [k \in 1..Len(list) |-> ToDict(Processed(Fetch(list[k], scripts[k], retries)[1]))]

\* how many HTTP calls each position's fetch made
Calls(scripts) == [k \in 1..Len(scripts) |-> Len(scripts[k])]

\* (results, elapsed_time), and the HTTP calls made for them
Run(results, time, calls) == [results |-> results, time |-> time, calls |-> calls]

\* what the module-level wrappers can return: they build WebCrawler() with
\* its default max_retries
WrapperRuns(s, list) ==
    {Run(RunResults(list, sc, DEFAULT_MAX_RETRIES), t, Calls(sc)) :
        sc \in [1..Len(list) -> CompleteScripts(s)], t \in 0..MaxElapsed}

Field(r, name) == IF r = None THEN None ELSE Some(r[1][name])

\* sum(1 for r in par_results if r.get('success', False))
SuccessCount(results) == Cardinality({k \in 1..Len(results) : results[k].success})

\* a page whose counts are taken from the sequential run
ViewCountsFromSequential(error, rs, url_count, db_enabled) ==
    [error |-> error,
     seq_results |-> Field(rs["sequential"], "results"),
     par_results |-> Field(rs["threaded"], "results"),
     async_results |-> Field(rs["async"], "results"),
     seq_time |-> Field(rs["sequential"], "time"),
     par_time |-> Field(rs["threaded"], "time"),
     async_time |-> Field(rs["async"], "time"),
     url_count |-> url_count,
     success_count |->
        IF rs["sequential"] = None THEN None
        ELSE Some(SuccessCount(rs["sequential"][1].results)),
     fail_count |->
        IF rs["sequential"] = None THEN None
        ELSE Some(Len(rs["sequential"][1].results)
                    - SuccessCount(rs["sequential"][1].results)),
     db_enabled |-> db_enabled]

View(error, rs, url_count, db_enabled) ==
    [error |-> error,
     seq_results |-> Field(rs["sequential"], "results"),
     par_results |-> Field(rs["threaded"], "results"),
     async_results |-> Field(rs["async"], "results"),
     seq_time |-> Field(rs["sequential"], "time"),
     par_time |-> Field(rs["threaded"], "time"),
     async_time |-> Field(rs["async"], "time"),
     url_count |-> url_count,
     success_count |->
        IF rs["threaded"] = None THEN None
        ELSE Some(SuccessCount(rs["threaded"][1].results)),
     fail_count |->
        IF rs["threaded"] = None THEN None
        ELSE Some(Len(rs["threaded"][1].results)
                    - SuccessCount(rs["threaded"][1].results)),
     db_enabled |-> db_enabled]

\* render_template("index.html", error=..., url_count=0)
ErrorView(msg) == View(Some(msg), NoRuns, 0, None)

\* urls = load_urls(...); if not urls: the error page
IndexLoad ==
    /\ ipc = "start"
    /\ IF urls = <<>>
       THEN /\ view' = ErrorView("No URLs found. Please check urls.txt file.")
            /\ ipc' = "done"
       ELSE /\ ipc' = "sequential"
            /\ UNCHANGED view
    /\ UNCHANGED <<params, run, cfg, db, faults, runs, executed, log>>

\* the except clause of index: the error is logged and the error page rendered
IndexFails ==
    /\ log' = log \cup {"Error in index route"}
    /\ view' = ErrorView("An error occurred")
    /\ ipc' = "done"
    /\ UNCHANGED runs

\* seq_results, seq_time = crawl_sequential(urls)
RunSequential ==
    /\ ipc = "sequential"
    /\ executed' = executed \cup {"sequential"}
    /\ IF "sequential" \in faults
       THEN IndexFails
       ELSE /\ \E r \in WrapperRuns("sequential", urls) :
                 runs' = [runs EXCEPT !["sequential"] = Some(r)]
            /\ ipc' = "threaded"
            /\ UNCHANGED <<log, view>>
    /\ UNCHANGED <<params, run, cfg, db, faults>>

\* par_results, par_time = crawl_parallel(urls, workers=...)
RunThreaded ==
    /\ ipc = "threaded"
    /\ executed' = executed \cup {"threaded"}
    /\ IF "threaded" \in faults
       THEN IndexFails
       ELSE /\ \E r \in WrapperRuns("threaded", urls) :
                 runs' = [runs EXCEPT !["threaded"] = Some(r)]
            /\ ipc' = "async"
            /\ UNCHANGED <<log, view>>
    /\ UNCHANGED <<params, run, cfg, db, faults>>

\* if config.crawler.async_enabled: try: crawl_async_wrapper(...) except: log
RunAsync ==
    /\ ipc = "async"
    /\ ipc' = "session"
    /\ IF ~cfg.async_enabled
       THEN UNCHANGED <<runs, executed, log>>
       ELSE /\ executed' = executed \cup {"async"}
            /\ IF "async" \in faults
               THEN /\ log' = log \cup {"Error in async crawl"}
                    /\ UNCHANGED runs
               ELSE /\ \E r \in WrapperRuns("async", urls) :
                         runs' = [runs EXCEPT !["async"] = Some(r)]
                    /\ UNCHANGED log
    /\ UNCHANGED <<params, run, cfg, db, faults, view>>

\* the rows save_crawl_results inserts for one strategy's results: each
\* carries the crawl_type it was called with
Batch(crawl_type) ==
    [crawl_type |-> crawl_type, results |-> runs[crawl_type][1].results]

\* the strategies whose results index hands to save_crawl_results:
\* 'sequential' and 'threaded', and 'async' if async_results
Saveable ==
    {"sequential", "threaded"}
        \cup (IF runs["async"] # None /\ runs["async"][1].results # <<>>
              THEN {"async"} ELSE {})

\* an index that goes on to save the results whether or not the session was saved
SaveSessionIgnoresFailure ==
    /\ ipc = "session"
    /\ IF db.available
       THEN /\ \E saved \in BOOLEAN :
                 db' = IF saved
                       THEN [db EXCEPT !.session =
                               Some([url_count |-> Len(urls),
                                     success_count |-> SuccessCount(runs["threaded"][1].results)])]
                       ELSE db
            /\ ipc' = "results"
       ELSE /\ ipc' = "render"
            /\ UNCHANGED db
    /\ UNCHANGED <<params, run, cfg, faults, runs, executed, log, view>>

\* a save_crawl_session that lets the exception of a failed insert through
SaveSessionRaises ==
    /\ ipc = "session"
    /\ IF db.available
       THEN \E saved \in BOOLEAN :
              IF saved
              THEN /\ db' = [db EXCEPT !.session =
                                Some([url_count |-> Len(urls),
                                      success_count |-> SuccessCount(runs["threaded"][1].results)])]
                   /\ ipc' = "results"
                   /\ UNCHANGED <<runs, log, view>>
              ELSE /\ IndexFails
                   /\ UNCHANGED db
       ELSE /\ ipc' = "render"
            /\ UNCHANGED <<db, runs, log, view>>
    /\ UNCHANGED <<params, run, cfg, faults, executed>>

\* if db_service.is_available(): session_id = db_service.save_crawl_session(...)
\* which returns None when the insert fails
SaveSession ==
    /\ ipc = "session"
    /\ IF db.available
       THEN \E saved \in BOOLEAN :
              IF saved
              THEN /\ db' = [db EXCEPT !.session =
                                Some([url_count |-> Len(urls),
                                      success_count |-> SuccessCount(runs["threaded"][1].results)])]
                   /\ ipc' = "results"
              ELSE /\ ipc' = "render"
                   /\ UNCHANGED db
       ELSE /\ ipc' = "render"
            /\ UNCHANGED db
    /\ UNCHANGED <<params, run, cfg, faults, runs, executed, log, view>>

\* if session_id: save_crawl_results for 'sequential', 'threaded' and, if
\* async_results, 'async'; each returns False when its insert fails
SaveResults ==
    /\ ipc = "results"
    /\ \E stored \in SUBSET Saveable :
          db' = [db EXCEPT !.batches = {Batch(c) : c \in stored}]
    /\ ipc' = "render"
    /\ UNCHANGED <<params, run, cfg, faults, runs, executed, log, view>>

\* render_template("index.html", seq_results=..., ...)
Render ==
    /\ ipc = "render"
    /\ view' = View(None, runs, Len(urls), Some(db.available))
    /\ ipc' = "done"
    /\ UNCHANGED <<params, run, cfg, db, faults, runs, executed, log>>

NextIndex ==
    \/ IndexLoad
    \/ RunSequential
    \/ RunThreaded
    \/ RunAsync
    \/ SaveSession
    \/ SaveResults
    \/ Render

SpecIndex == InitIndex /\ [][NextIndex]_vars

(***************************************************************************)
(* Properties.                                                             *)
(***************************************************************************)
Returned == main = "returned"
Results == returned[1]

\* the value the fetch at position i ends with, given the outcomes it got
Expected(i) == Fetch(urls[i], served[i], max_retries)[1]

\* C1: for a non-empty URL list, whatever order the fetches end in, the list a
\* runner returns has the input's length and its i-th entry is the outcome of
\* fetching the i-th input URL.
C1_ResultsByInputPosition ==
    (Returned /\ N > 0) =>
        /\ Len(Results) = N
        /\ \A i \in Positions : Results[i] = ToDict(Processed(Expected(i)))

\* a pooled run has returned after a fetch ended before an earlier position's
C1_Witness ==
    /\ Returned /\ mode = "threaded" /\ N >= 2
    /\ overtaken
    /\ Results[1].success /\ ~Results[2].success

\* the stub of the retry law: a timeout on each attempt before the last one,
\* a response on the last one
TimesOutThenResponds(h) ==
    \A k \in 1..Len(h) :
        /\ k < max_retries => h[k].kind = "timeout"
        /\ k = max_retries => h[k].kind = "response"

\* C2: with maxRetries >= 1, when the HTTP call times out on the first
\* maxRetries-1 attempts and answers on the last one, fetch returns
\* success=true with the parsed title after exactly maxRetries calls.
C2_RetryLaw ==
    \A i \in Positions :
        (Done(i) /\ max_retries >= 1 /\ TimesOutThenResponds(served[i])) =>
            /\ ~fut[i][1].raised
            /\ fut[i][1].result.success
            /\ fut[i][1].result.title = ParseTitle(served[i][Len(served[i])].page)
            /\ Len(served[i]) = max_retries

\* a fetch with three attempts allowed has ended after two timeouts and a response
C2_Witness ==
    \E i \in Positions :
        /\ Done(i) /\ max_retries = 3
        /\ Len(served[i]) = 3
        /\ served[i][1].kind = "timeout" /\ served[i][2].kind = "timeout"
        /\ served[i][3].kind = "response"
        /\ fut[i][1].result.success

\* the stub of the exhaustion law: every attempt times out
AlwaysTimesOut(h) == \A k \in 1..Len(h) : h[k].kind = "timeout"

\* C3: with maxRetries >= 1, when every attempt times out, fetch returns
\* success=false, title "Timeout Error", links 0, error "Request timed out",
\* after exactly maxRetries calls.
C3_ExhaustionLaw ==
    \A i \in Positions :
        (Done(i) /\ max_retries >= 1 /\ AlwaysTimesOut(served[i])) =>
            /\ ~fut[i][1].raised
            /\ ~fut[i][1].result.success
            /\ fut[i][1].result.title = "Timeout Error"
            /\ fut[i][1].result.links = 0
            /\ fut[i][1].result.error = Some("Request timed out")
            /\ Len(served[i]) = max_retries

\* a fetch with three attempts allowed has ended after three timeouts
C3_Witness ==
    \E i \in Positions :
        /\ Done(i) /\ max_retries = 3
        /\ Len(served[i]) = 3 /\ AlwaysTimesOut(served[i])
        /\ fut[i][1].result.title = "Timeout Error"

\* exactly one of: success, an error message
SuccessXorError(r) == r.success <=> (r.error = None)

\* C4: every result of a fetch or of a runner is either a success without an
\* error message or a failure with one.
C4_SuccessXorError ==
    /\ \A i \in Positions :
          (Done(i) /\ ~fut[i][1].raised) => SuccessXorError(fut[i][1].result)
    /\ Returned => \A i \in Positions : SuccessXorError(Results[i])

\* crawl_async has returned the failure it makes of a task that raised
C4_Witness ==
    /\ Returned /\ mode = "async"
    /\ \E i \in Positions :
          /\ fut[i][1].raised
          /\ ~Results[i].success /\ Results[i].error # None

\* C5: the url of every returned result is the URL requested at its position.
C5_UrlPreserved ==
    Returned => \A i \in Positions : Results[i].url = urls[i]

\* the fetches holding a connection to one host / to one endpoint
InFlightToHost(h) == {i \in InFlight : Host(urls[i]) = h}

C7_GlobalLimit ==
    mode = "async" => Cardinality(InFlight) <= concurrent_limit

\* the limit is reached while another task, started with the rest, waits
C7_Witness ==
    /\ mode = "async" /\ concurrent_limit = 2
    /\ Cardinality(InFlight) = concurrent_limit
    /\ \E i \in Positions : task[i].pc = "loop" /\ ~CanAcquire(i)

\* C8: in crawl_threaded with W workers at most W fetches execute at a time,
\* and when it returns every input position was fetched exactly once.
C8_PoolBounded ==
    mode = "threaded" =>
        /\ Cardinality(Executing) <= workers
        /\ \A i \in Positions : begun[i] <= 1
        /\ Returned => \A i \in Positions : begun[i] = 1 /\ Done(i)

\* all workers are busy while a submitted call still waits in the queue
C8_Witness ==
    /\ mode = "threaded" /\ workers = 2
    /\ Cardinality(Executing) = workers
    /\ queue # <<>>

Faulted(i) == fut[i] # None /\ fut[i][1].raised

\* C9: in crawl_async a fault that leaves one fetch task leaves the others as
\* they are: the runner returns one result per URL, the faulted task's is a
\* failure with an error message, every other result is what its own fetch
\* produced, and nothing is raised to the caller.
C9_FaultIsolated ==
    /\ mode = "async" => main # "raised"
    /\ (mode = "async" /\ Returned) =>
          /\ Len(Results) = N
          /\ \A i \in Positions :
                IF Faulted(i)
                THEN ~Results[i].success /\ Results[i].error # None
                ELSE Results[i] = ToDict(Expected(i).result)

\* a bounded run has returned with one faulted task next to a successful one
C9_Witness ==
    /\ mode = "async" /\ Returned
    /\ \E i, j \in Positions :
          /\ Faulted(i)
          /\ ~Faulted(j) /\ Results[j].success

\* C10: a strategy that cannot execute does not keep the others from
\* executing: its fault is logged, it is reported as absent, and the results
\* and elapsed times of the other strategies are rendered.
C10_StrategiesIsolated ==
    (ipc = "done" /\ urls # <<>>) =>
        \A s \in Strategies \ (IF cfg.async_enabled THEN {} ELSE {"async"}) :
            IF s \in faults
            THEN log # {} /\ runs[s] = None
            ELSE /\ s \in executed
                 /\ runs[s] # None
                 /\ view.error = None
                 /\ view.seq_results = Field(runs["sequential"], "results")
                 /\ view.par_results = Field(runs["threaded"], "results")
                 /\ view.async_results = Field(runs["async"], "results")
                 /\ view.seq_time = Field(runs["sequential"], "time")
                 /\ view.par_time = Field(runs["threaded"], "time")
                 /\ view.async_time = Field(runs["async"], "time")

\* the enablement flag of a strategy
Enabled(s) ==
    CASE s = "sequential" -> cfg.sequential_enabled
      [] s = "threaded"   -> cfg.threaded_enabled
      [] OTHER            -> cfg.async_enabled

\* what the rendered page shows of a strategy: its results and elapsed time
Shown(s) ==
    CASE s = "sequential" -> <<view.seq_results, view.seq_time>>
      [] s = "threaded"   -> <<view.par_results, view.par_time>>
      [] OTHER            -> <<view.async_results, view.async_time>>

\* C11: in a comparison a strategy whose enablement flag is false is not
\* executed and is absent from the output; a strategy whose flag is true is
\* executed over the URL list.
C11_DisabledOmitted ==
    (ipc = "done" /\ urls # <<>> /\ faults = {}) =>
        \A s \in Strategies :
            IF Enabled(s)
            THEN s \in executed /\ runs[s] # None
            ELSE s \notin executed /\ runs[s] = None /\ Shown(s) = <<None, None>>

\* the attempts ended in a response or in a per-URL failure: a timeout, a
\* connection failure, a parse failure or another exception of the call
Recoverable(h) ==
    \A k \in 1..Len(h) :
        h[k].kind \in {"response", "timeout", "connection", "error", "parse"}

\* C12: timeouts, connection failures and parse or unexpected failures never
\* leave fetch_sync or fetch_async as raised exceptions: the fetch returns a
\* CrawlResult, and the runner does not end in an error because of them.
C12_FailuresRecovered ==
    /\ \A i \in Positions :
          (Done(i) /\ Recoverable(served[i])) => ~fut[i][1].raised
    /\ (\A i \in Positions : Recoverable(served[i])) => main # "raised"

\* a runner has returned the failure of a fetch whose three attempts ended in
\* a timeout, a connection failure and a parse failure
C12_Witness ==
    /\ Returned
    /\ \E i \in Positions :
          /\ Len(served[i]) = 3
          /\ served[i][1].kind = "timeout"
          /\ served[i][2].kind = "connection"
          /\ served[i][3].kind = "parse"
          /\ ~fut[i][1].raised /\ ~Results[i].success

OnlyRetryable(h) ==
    \A k \in 1..Len(h) : h[k].kind \in {"timeout", "connection"}

ConnectionPrefix == "Connection failed: "

\* C14: connection failures are retried as timeouts are: when each of the
\* attempts ends in a timeout or a connection failure, exactly maxRetries
\* attempts are made and the failure returned is that of the last attempt; for
\* a connection failure it has title "Connection Error", links 0,
\* success=false and error "Connection failed: " followed by the first 50
\* characters of the underlying message.
C14_ConnectionRetryLaw ==
    \A i \in Positions :
        (Done(i) /\ max_retries >= 1 /\ OnlyRetryable(served[i])) =>
            /\ Len(served[i]) = max_retries
            /\ ~fut[i][1].raised
            /\ LET last == served[i][Len(served[i])]
                   r == fut[i][1].result
               IN /\ ~r.success /\ r.links = 0 /\ r.error # None
                  /\ last.kind = "timeout" =>
                        r.title = "Timeout Error" /\ r.error[1] = "Request timed out"
                  /\ last.kind = "connection" =>
                        /\ r.title = "Connection Error"
                        /\ HasPrefix(r.error[1], ConnectionPrefix)
                        /\ Len(r.error[1]) =
                              Len(ConnectionPrefix) + Min(Len(last.msg), CONN_MSG_MAX)
                        /\ HasPrefix(last.msg,
                                     SubSeq(r.error[1], Len(ConnectionPrefix) + 1,
                                            Len(r.error[1])))

\* a fetch with three attempts allowed has ended after a connection failure,
\* a timeout and a connection failure with a message of more than 50 characters
C14_Witness ==
    \E i \in Positions :
        /\ max_retries = 3 /\ Done(i)
        /\ Len(served[i]) = 3
        /\ served[i][1].kind = "connection"
        /\ served[i][2].kind = "timeout"
        /\ served[i][3] = ConnectionError(LongMessage)
        /\ fut[i][1].result.title = "Connection Error"
        /\ Len(fut[i][1].result.error[1]) = Len(ConnectionPrefix) + CONN_MSG_MAX

\* the fetches are entered one at a time and in input order
OneAtATimeInOrder ==
    /\ Cardinality(Executing) <= 1
    /\ \A i \in Positions :
          task[i].pc # "new" => \A j \in 1..(i - 1) : Done(j)

\* C15: with the same outcomes for each URL's attempts, crawl_threaded with
\* one worker returns the result contents crawl_sequential returns: the pool
\* runs the fetches one at a time in input order, and both runners return,
\* position by position, the result of that position's fetch.
C15_OneWorkerAsSequential ==
    /\ (mode = "threaded" /\ workers = 1) => OneAtATimeInOrder
    /\ (Returned /\ (mode = "sequential" \/ (mode = "threaded" /\ workers = 1))) =>
          Results = RunResults(urls, served, max_retries)

\* a pool of one worker has returned three results, a failure after a retry
\* among them
C15_Witness ==
    /\ mode = "threaded" /\ workers = 1 /\ N = 3 /\ Returned
    /\ Results[1].success
    /\ Len(served[2]) = 2 /\ ~Results[2].success

\* C16: crawl_sequential calls the fetcher once per input URL, in input
\* order, with never more than one fetch under way: the fetch of a URL, its
\* retries included, has returned before the fetch of the next URL starts.
C16_SequentialInOrder ==
    mode = "sequential" =>
        /\ OneAtATimeInOrder
        /\ ~overtaken
        /\ \A i \in Positions : begun[i] <= 1
        /\ Returned => \A i \in Positions : begun[i] = 1

\* the second of three fetches is in its second attempt: the first fetch has
\* returned and the third has not started
C16_Witness ==
    /\ mode = "sequential" /\ N = 3
    /\ Done(1)
    /\ task[2] = Task("inflight", 1)
    /\ task[3].pc = "new"

\* the elapsed time a runner returned
Elapsed == returned[2]

\* C17: for an empty URL list each runner returns an empty result list and
\* an elapsed time >= 0, performs no fetch and raises nothing.
C17_EmptyListEmptyResult ==
    (N = 0 /\ mode \in Strategies) =>
        /\ main # "raised"
        /\ begun = <<>> /\ served = <<>>
        /\ queue = <<>> /\ threads = <<>> /\ submitted = 0
        /\ Returned => (Results = <<>> /\ Elapsed >= 0)

\* crawl_async has returned from a run over no URLs
C17_Witness ==
    /\ N = 0 /\ mode = "async" /\ Returned
    /\ Results = <<>>

\* the comparison has rendered its results page
Rendered == ipc = "done" /\ view # None /\ view.error = None

\* the positions of a run's results that are successes / failures
Successes(r) == {k \in 1..Len(r.results) : r.results[k].success}
Failures(r) == {k \in 1..Len(r.results) : ~r.results[k].success}

\* C18: in a comparison successCount is the number of successes among the
\* pooled run's results and failCount the number of its other results, so
\* that they add up to the number of input URLs, whatever the sequential and
\* the bounded run returned.
C18_CountsFromPooledRun ==
    Rendered =>
        /\ view.success_count = Some(Cardinality(Successes(runs["threaded"][1])))
        /\ view.fail_count = Some(Cardinality(Failures(runs["threaded"][1])))
        /\ view.success_count[1] + view.fail_count[1] = Len(urls)

\* a page with one success and one failure counted from the pooled run, next
\* to a sequential run without failures and a bounded run without successes
C18_Witness ==
    /\ Rendered /\ Len(urls) = 2
    /\ view.success_count = Some(1) /\ view.fail_count = Some(1)
    /\ Failures(runs["sequential"][1]) = {}
    /\ runs["async"] # None /\ Successes(runs["async"][1]) = {}

\* C19: the runners of a comparison use the configured number of attempts:
\* with max_retries = R in the configuration, a URL that times out on every
\* attempt is attempted exactly R times in each strategy.
C19_ConfiguredRetriesUsed ==
    Rendered =>
        \A s \in Strategies :
            runs[s] # None =>
                \A k \in 1..Len(runs[s][1].results) :
                    runs[s][1].results[k].title = "Timeout Error" =>
                        runs[s][1].calls[k] = cfg.max_retries

\* the handler is in its persistence block
Persisting == ipc \in {"session", "results"}

\* the page shows what the runners returned and the counts of the pooled run
ShowsRuns ==
    /\ Rendered
    /\ \A s \in Strategies :
          Shown(s) = <<Field(runs[s], "results"), Field(runs[s], "time")>>
    /\ view.success_count = Some(Cardinality(Successes(runs["threaded"][1])))
    /\ view.fail_count = Some(Cardinality(Failures(runs["threaded"][1])))

\* C20: what a comparison hands to the page does not depend on persistence:
\* a step of the persistence block changes neither the runs nor the page and
\* always leads on towards rendering, whether the database is unavailable,
\* saves, or fails to save; and once the sequential and the pooled runner
\* have returned the request ends with the page of their results, elapsed
\* times and counts, never with the error page.
C20_PersistenceFrame ==
    /\ [][Persisting =>
            /\ runs' = runs /\ view' = view /\ log' = log
            /\ ipc' \in {"results", "render"}]_vars
    /\ []((ipc = "done" /\ runs["sequential"] # None /\ runs["threaded"] # None)
            => ShowsRuns)

\* the results page was rendered after the session was saved and the saving
\* of the pooled run's results failed
C20_Witness ==
    /\ Rendered
    /\ db.available /\ db.session # None
    /\ \E b \in db.batches : b.crawl_type = "sequential"
    /\ \A b \in db.batches : b.crawl_type # "threaded"

\* the fetch's last attempt obtained an HTTP response (whose processing may
\* then have failed)
ResponseReceived(h) ==
    h # <<>> /\ h[Len(h)].kind \in {"response", "parse"}

\* C21: a result carries a status code exactly when an HTTP response was
\* received for the fetch: on every result whose last attempt obtained a
\* response, also when processing the response failed, and on no result of a
\* timeout or a connection failure.
C21_StatusIffResponse ==
    \A i \in Positions :
        (Done(i) /\ ~fut[i][1].raised) =>
            (fut[i][1].result.status_code # None <=> ResponseReceived(served[i]))

\* C22: with maxRetries <= 0 a fetch makes no HTTP attempt and returns the
\* fallback result: success=false, title "Error", links 0, error "Max retries
\* exceeded"; with maxRetries >= 1 the return after the loop is never reached:
\* every fetch returns from inside the loop, after at least one attempt.
C22_FallbackOnlyWithoutRetries ==
    \A i \in Positions :
        /\ max_retries <= 0 =>
              /\ served[i] = <<>>
              /\ task[i].pc # "inflight"
              /\ Done(i) =>
                    fut[i][1] = Value(CrawlResult(urls[i], "Error", 0, None,
                                                  Some("Max retries exceeded"), FALSE))
        /\ max_retries >= 1 =>
              /\ ~(task[i].pc = "loop" /\ task[i].attempt >= max_retries)
              /\ Done(i) => Len(served[i]) >= 1

\* fetch_async with max_retries = 0 has returned the fallback result, and
\* crawl_async has returned it
C22_Witness ==
    /\ mode = "async" /\ max_retries = 0 /\ Returned
    /\ \E i \in Positions :
          /\ served[i] = <<>>
          /\ Results[i].error = Some("Max retries exceeded")

\* C23: when every HTTP attempt ends, every fetch ends after at most
\* maxRetries attempts, and every runner returns its result list in the end.
C23_RunnersReturn ==
    /\ [](\A i \in Positions : Len(served[i]) <= max_retries)
    /\ <>Returned

\* a runner has returned after a fetch that used every attempt it had
C23_Witness ==
    /\ Returned /\ N = 3
    /\ \E i \in Positions :
          Len(served[i]) = max_retries /\ ~Results[i].success

\* the task at position i is in session.get(...) waiting for a connection
Waiting(i) ==
    /\ mode = "async" /\ i \in Positions
    /\ task[i].pc = "loop" /\ task[i].attempt < max_retries
    /\ ~CanAcquire(i)

\* C24: the total and the per-host limit of crawl_async's connector cannot
\* deadlock: in no state are all unfinished tasks waiting for a connection,
\* the connections a waiting task lacks are held by requests under way (a
\* waiting task holds none), and whenever tasks wait there comes a state in
\* which none is waiting any more.
C24_NoSlotDeadlock ==
    /\ []((mode = "async" /\ ~AllDone) =>
            \E i \in Positions : ~Done(i) /\ ~Waiting(i))
    /\ []((\E i \in Positions : Waiting(i)) =>
            (InFlight # {} /\ \A i \in InFlight : ~Waiting(i)))
    /\ (\E i \in Positions : Waiting(i)) ~> (\A i \in Positions : ~Waiting(i))

\* both limits are reached: ten requests to one endpoint are under way under a
\* total limit of ten, and the eleventh task waits
C24_Witness ==
    /\ concurrent_limit = LIMIT_PER_HOST
    /\ Cardinality(InFlight) = concurrent_limit
    /\ \E i \in Positions :
          /\ Waiting(i)
          /\ Cardinality(InFlightTo(Endpoint(urls[i]))) = LIMIT_PER_HOST

\* the attempts among h that failed with a timeout or a connection failure
\* and were not the last attempt allowed
RetriedFailures(h, retries) ==
    {k \in 1..Len(h) : h[k].kind \in {"timeout", "connection"} /\ k < retries}

\* C25: fetch_async suspends (asyncio.sleep(0.5)) once after every attempt
\* that failed with a timeout or a connection failure and is followed by
\* another attempt, and at no other point: a fetch that failed k < maxRetries
\* times before its outcome has suspended k times, an exhausted one
\* maxRetries - 1 times; fetch_sync never suspends.
C25_SleepBetweenRetries ==
    \A i \in Positions :
        /\ mode = "async" =>
              sleeps[i] = Cardinality(RetriedFailures(served[i], max_retries))
        /\ mode = "sequential" => sleeps[i] = 0
        /\ (Done(i) /\ max_retries >= 1 /\ ~fut[i][1].raised) =>
              IF fut[i][1].result.title \in {"Timeout Error", "Connection Error"}
              THEN mode = "async" => sleeps[i] = max_retries - 1
              ELSE mode = "async" => sleeps[i] = Len(served[i]) - 1

\* a fetch_async with three attempts allowed is exhausted after two
\* suspensions
C25_Witness ==
    \E i \in Positions :
        /\ mode = "async" /\ max_retries = 3 /\ Done(i)
        /\ served[i][1].kind = "timeout"
        /\ served[i][2].kind = "connection"
        /\ served[i][3].kind = "timeout"
        /\ sleeps[i] = 2

\* C26: on a successful fetch the title is the trimmed text of the title
\* element, and "No Title" when the element is absent or its text is empty
\* after trimming; so no successful result has the empty string as its title.
C26_TitleOrNoTitle ==
    \A i \in Positions :
        (Done(i) /\ ~fut[i][1].raised /\ fut[i][1].result.success) =>
            LET page == served[i][Len(served[i])].page
            IN /\ fut[i][1].result.title =
                     IF page.title = None \/ Strip(page.title[1]) = ""
                     THEN "No Title" ELSE Strip(page.title[1])
               /\ fut[i][1].result.title # ""

\* the error of r is absent on success and at most 100 characters long when
\* present, and a failed r counts no links
ErrorBounded(r) ==
    /\ r.success => r.error = None
    /\ r.error # None => Len(r.error[1]) <= ERR_MSG_MAX
    /\ ~r.success => r.links = 0

\* C27: in every result of a fetch or of a runner the error is absent when
\* success is true and at most 100 characters long when present, for every
\* kind of failure (timeout, connection failure, unexpected error, task fault
\* in crawl_async, zero-retry fallback); links is 0 on every failed result.
C27_ErrorBounded ==
    /\ \A i \in Positions :
          (Done(i) /\ ~fut[i][1].raised) => ErrorBounded(fut[i][1].result)
    /\ Returned => \A i \in Positions : ErrorBounded(Results[i])

\* crawl_async has returned, for a task that raised with a message of more than
\* 100 characters, a failure whose error has 100 characters
C27_Witness ==
    /\ mode = "async" /\ Returned
    /\ \E i \in Positions :
          /\ fut[i][1].raised /\ Len(fut[i][1].msg) > ERR_MSG_MAX
          /\ Len(Results[i].error[1]) = ERR_MSG_MAX
          /\ Results[i].links = 0

\* C28: in a comparison the per-URL results are written only after the
\* session row was saved and gave a session identifier, each batch tagged
\* with the strategy that produced it; nothing is written when the database
\* is unavailable or the session was not saved, and 'async' results are
\* written only when the bounded strategy ran and produced results.
C28_ResultsAfterSession ==
    /\ [][db'.batches # db.batches => (ipc = "results" /\ db.session # None)]_vars
    /\ [](~db.available => (db.session = None /\ db.batches = {}))
    /\ [](db.session = None => db.batches = {})
    /\ [](\A b \in db.batches :
            /\ b.crawl_type \in Strategies
            /\ runs[b.crawl_type] # None
            /\ b.results = runs[b.crawl_type][1].results
            /\ b.crawl_type = "async" =>
                  ("async" \in executed /\ b.results # <<>>))

\* the session and the results of all three strategies were saved
C28_Witness ==
    /\ ipc = "done" /\ db.session # None
    /\ {b.crawl_type : b \in db.batches} = Strategies
====
